---- MODULE Spec2Model ----
(***************************************************************************)
(* Model of the notification service of src/src/notifications.js.          *)
(*                                                                         *)
(* The store is the `notifications` table (rows in insertion order).  The  *)
(* direct call surface (create, getInbox, getArchived, archive,            *)
(* archiveAll, markAsRead, markAllAsRead) is modelled one action per       *)
(* call, issued by a caller that awaits each call before the next.  The    *)
(* event handlers of _bindEvents and concurrent create calls are tasks     *)
(* whose store statements and emits are separate steps.                    *)
(*                                                                         *)
(* JavaScript values are records [type, val]; every string is a sequence   *)
(* of one-character strings so that toLowerCase and template strings are   *)
(* computed character by character.                                        *)
(***************************************************************************)
EXTENDS Integers, Sequences, FiniteSets, TLC

VARIABLES store, clock, nextId, lastCall, ret, logs, emitted, tasks

vars == <<store, clock, nextId, lastCall, ret, logs, emitted, tasks>>

-----------------------------------------------------------------------------
(* Bounds of the model *)

MaxRows == 2
MaxClock == 1
MaxCreateRows == 1
MaxCapCreates == 2
MaxCapTicks == 1

-----------------------------------------------------------------------------
(* JavaScript values *)

Undefined == [type |-> "undefined", val |-> <<>>]

Str(s) == [type |-> "string", val |-> s]

Num(digits) == [type |-> "number", val |-> digits]

Bool(b) == [type |-> "boolean", val |-> IF b THEN <<"t">> ELSE <<"f">>]

Typeof(v) == v.type

Truthy(v) ==
  CASE v.type = "undefined" -> FALSE
    [] v.type = "string" -> v.val # <<>>
    [] v.type = "number" -> v.val # <<"0">>
    [] v.type = "boolean" -> v.val = <<"t">>

UpperChars == <<"A", "B", "C", "D", "E", "F", "G", "H", "I", "J", "K", "L", "M",
                "N", "O", "P", "Q", "R", "S", "T", "U", "V", "W", "X", "Y", "Z">>

LowerChars == <<"a", "b", "c", "d", "e", "f", "g", "h", "i", "j", "k", "l", "m",
                "n", "o", "p", "q", "r", "s", "t", "u", "v", "w", "x", "y", "z">>

LowerChar(c) ==
  IF \E i \in 1..Len(UpperChars) : UpperChars[i] = c
    THEN LowerChars[CHOOSE i \in 1..Len(UpperChars) : UpperChars[i] = c]
    ELSE c

toLowerCase(s) == [i \in 1..Len(s) |-> LowerChar(s[i])]

-----------------------------------------------------------------------------
(* Collaborators injected into the service: module registry and logger *)

ModuleA ==
  [name |-> <<"q", "n", "a">>,
   root |-> "/bot/node_modules/botpress-qna",
   settings |-> [menuIcon |-> <<"c", "h", "a", "t">>, menuText |-> <<"Q", "&", "A">>]]

modules == {ModuleA}

LoggerMethods ==
  { <<"i", "n", "f", "o">>, <<"e", "r", "r", "o", "r">>, <<"w", "a", "r", "n">>,
    <<"d", "e", "b", "u", "g">> }

(* database/helpers: the store's boolean and timestamp representations *)
BoolTrue == TRUE

BoolFalse == FALSE

BoolParse(v) == v = BoolTrue

DateNow(now) == now

-----------------------------------------------------------------------------
(* create: validation and normalisation *)

MessageInvalid_TypeOnly(message) == Typeof(message) # "string"

MessageInvalid(message) == ~Truthy(message) \/ Typeof(message) # "string"

AcceptedLevels ==
  { <<"i", "n", "f", "o">>, <<"e", "r", "r", "o", "r">>,
    <<"s", "u", "c", "c", "e", "s", "s">> }

InfoLevel == <<"i", "n", "f", "o">>

NormalizeLevel_NoIncludes(level) ==
  IF ~Truthy(level) \/ Typeof(level) # "string"
    THEN InfoLevel
    ELSE toLowerCase(level.val)

NormalizeLevel(level) ==
  IF ~Truthy(level) \/ Typeof(level) # "string"
       \/ toLowerCase(level.val) \notin AcceptedLevels
    THEN InfoLevel
    ELSE toLowerCase(level.val)

FindModule(callingModuleRoot) == {mod \in modules : mod.root = callingModuleRoot}

(* typeof of the identifier `url`, which create never declares *)
TypeofUrl == "undefined"

ModulePath(name) == <<"/", "m", "o", "d", "u", "l", "e", "s", "/">> \o name

DefaultOptions(redirectUrl) ==
  [moduleId |-> <<"b", "o", "t", "p", "r", "e", "s", "s">>,
   icon |-> <<"v", "i", "e", "w", "_", "m", "o", "d", "u", "l", "e">>,
   name |-> <<"b", "o", "t", "p", "r", "e", "s", "s">>,
   url |-> IF Typeof(redirectUrl) = "string" THEN redirectUrl ELSE Str(<<"/">>)]

ModuleOptions(module, redirectUrl) ==
  [moduleId |-> module.name,
   icon |-> module.settings.menuIcon,
   name |-> module.settings.menuText,
   url |-> IF ~Truthy(redirectUrl) \/ TypeofUrl # "string"
             THEN Str(ModulePath(module.name))
             ELSE redirectUrl]

Options(callingModuleRoot, redirectUrl) ==
  IF FindModule(callingModuleRoot) # {}
    THEN ModuleOptions(CHOOSE mod \in FindModule(callingModuleRoot) : TRUE, redirectUrl)
    ELSE DefaultOptions(redirectUrl)

Notification(id, message, level, options, now, enableSound) ==
  [id |-> id,
   message |-> message.val,
   level |-> level,
   moduleId |-> options.moduleId,
   icon |-> options.icon,
   name |-> options.name,
   url |-> options.url,
   date |-> now,
   sound |-> IF Truthy(enableSound) THEN enableSound ELSE Bool(FALSE),
   read |-> FALSE]

toDatabase(notification, now) ==
  [id |-> notification.id,
   message |-> notification.message,
   level |-> notification.level,
   module_id |-> notification.moduleId,
   module_icon |-> notification.icon,
   module_name |-> notification.name,
   redirect_url |-> notification.url,
   created_on |-> DateNow(now),
   read |-> BoolFalse,
   archived |-> BoolFalse]

fromDatabase_ModuleIdAsName(row) ==
  [id |-> row.id,
   message |-> row.message,
   level |-> row.level,
   moduleId |-> row.module_id,
   icon |-> row.module_icon,
   name |-> row.module_id,
   url |-> row.redirect_url,
   date |-> row.created_on,
   sound |-> Bool(FALSE),
   read |-> BoolParse(row.read)]

fromDatabase(row) ==
  [id |-> row.id,
   message |-> row.message,
   level |-> row.level,
   moduleId |-> row.module_id,
   icon |-> row.module_icon,
   name |-> row.module_name,
   url |-> row.redirect_url,
   date |-> row.created_on,
   sound |-> Bool(FALSE),
   read |-> BoolParse(row.read)]

LogMessage(notification) ==
  <<"[", "n", "o", "t", "i", "f", "i", "c", "a", "t", "i", "o", "n", ":", ":">>
    \o notification.moduleId \o <<"]", " ">> \o notification.message

LoggerLevel(level) == IF level \in LoggerMethods THEN level ELSE <<"i", "n", "f", "o">>

-----------------------------------------------------------------------------
(* Statements on the notifications table *)

Insert_Replace(s, row) == IF s = <<>> THEN <<row>> ELSE [s EXCEPT ![Len(s)] = row]

Insert(s, row) == Append(s, row)

Ids(s) == {s[i].id : i \in 1..Len(s)}

archive_NoWhere(s, notificationId) ==
  [i \in 1..Len(s) |-> [s[i] EXCEPT !.archived = BoolTrue]]

archive_AlsoRead(s, notificationId) ==
  [i \in 1..Len(s) |->
     IF s[i].id = notificationId
       THEN [s[i] EXCEPT !.archived = BoolTrue, !.read = BoolTrue]
       ELSE s[i]]

archive(s, notificationId) ==
  [i \in 1..Len(s) |->
     IF s[i].id = notificationId THEN [s[i] EXCEPT !.archived = BoolTrue] ELSE s[i]]

archiveAll_OnlyRead(s) ==
  [i \in 1..Len(s) |->
     IF s[i].read = BoolTrue THEN [s[i] EXCEPT !.archived = BoolTrue] ELSE s[i]]

archiveAll(s) == [i \in 1..Len(s) |-> [s[i] EXCEPT !.archived = BoolTrue]]

markAsRead_Toggle(s, notificationId) ==
  [i \in 1..Len(s) |->
     IF s[i].id = notificationId THEN [s[i] EXCEPT !.read = ~s[i].read] ELSE s[i]]

markAsRead_Unarchive(s, notificationId) ==
  [i \in 1..Len(s) |->
     IF s[i].id = notificationId
       THEN [s[i] EXCEPT !.read = BoolTrue, !.archived = BoolFalse]
       ELSE s[i]]

markAsRead(s, notificationId) ==
  [i \in 1..Len(s) |->
     IF s[i].id = notificationId THEN [s[i] EXCEPT !.read = BoolTrue] ELSE s[i]]

markAllAsRead(s) == [i \in 1..Len(s) |-> [s[i] EXCEPT !.read = BoolTrue]]

Where(s, archived) == {i \in 1..Len(s) : s[i].archived = archived}

RECURSIVE Arrangements(_, _)
(* the sequences of min(k, |B|) distinct row positions of B, in every order *)
Arrangements(B, k) ==
  IF B = {} \/ k = 0
    THEN {<<>>}
    ELSE UNION { {<<i>> \o t : t \in Arrangements(B \ {i}, k - 1)} : i \in B }

RECURSIVE DescRange(_, _, _, _, _)
(* the rows of S, all created within oldest..newest, newest first, at most k: *)
(* those created in the later half of the range, then those of the earlier half *)
DescRange(s, S, k, oldest, newest) ==
  IF k = 0 \/ S = {}
    THEN {<<>>}
    ELSE IF oldest = newest
      THEN Arrangements(S, k)
      ELSE LET mid == (oldest + newest) \div 2
               later == {i \in S : s[i].created_on > mid}
               taken == IF Cardinality(later) < k THEN Cardinality(later) ELSE k
           IN { a \o b : a \in DescRange(s, later, k, mid + 1, newest),
                         b \in DescRange(s, S \ later, k - taken, oldest, mid) }

CreatedOn(s, S) == {s[i].created_on : i \in S}

Newest(T) == CHOOSE t \in T : \A u \in T : u <= t

Oldest(T) == CHOOSE t \in T : \A u \in T : t <= u

(* ORDER BY created_on DESC LIMIT k over the rows S: every order the store  *)
(* may return; rows with equal created_on come in any order                *)
OrderByDescLimit(s, S, k) ==
  IF S = {}
    THEN {<<>>}
    ELSE DescRange(s, S, k, Oldest(CreatedOn(s, S)), Newest(CreatedOn(s, S)))

InboxLimit == 100

ArchivedLimit == 100

getInbox_NoLimit(s) ==
  { [j \in 1..Len(q) |-> fromDatabase(s[q[j]])] :
      q \in OrderByDescLimit(s, Where(s, BoolFalse), Len(s)) }

getInbox_NoWhere(s) ==
  { [j \in 1..Len(q) |-> fromDatabase(s[q[j]])] :
      q \in OrderByDescLimit(s, 1..Len(s), InboxLimit) }

getInbox(s) ==
  { [j \in 1..Len(q) |-> fromDatabase(s[q[j]])] :
      q \in OrderByDescLimit(s, Where(s, BoolFalse), InboxLimit) }

getArchived(s) ==
  { [j \in 1..Len(q) |-> fromDatabase(s[q[j]])] :
      q \in OrderByDescLimit(s, Where(s, BoolTrue), ArchivedLimit) }

-----------------------------------------------------------------------------
(* Inputs *)

Hi == <<"h", "i">>

Call(op, id) ==
  [op |-> op, id |-> id, message |-> Undefined, redirectUrl |-> Undefined,
   level |-> Undefined, enableSound |-> Undefined, callingModuleRoot |-> ""]

CreateCall(message, redirectUrl, level, enableSound, callingModuleRoot) ==
  [op |-> "create", id |-> 0, message |-> message, redirectUrl |-> redirectUrl,
   level |-> level, enableSound |-> enableSound, callingModuleRoot |-> callingModuleRoot]

NoCall == Call("none", 0)

Ok == [status |-> "resolved", error |-> "", rows |-> <<>>]

Rows(rows) == [status |-> "resolved", error |-> "", rows |-> rows]

Rejected(msg) == [status |-> "rejected", error |-> msg, rows |-> <<>>]

MessageError == "'message' is mandatory and should be a string"

CoreRoot == "/bot"

Init ==
  /\ store = <<>>
  /\ clock = 0
  /\ nextId = 1
  /\ lastCall = NoCall
  /\ ret = Ok
  /\ logs = <<>>
  /\ emitted = <<>>
  /\ tasks = <<>>

(* the store's and the process's clock advances between calls *)
Tick(maxClock) ==
  /\ clock < maxClock
  /\ clock' = clock + 1
  /\ UNCHANGED <<store, nextId, lastCall, ret, logs, emitted, tasks>>

Create(message, redirectUrl, level, enableSound, callingModuleRoot, maxRows) ==
  /\ MessageInvalid(message) \/ Len(store) < maxRows
  /\ lastCall' = CreateCall(message, redirectUrl, level, enableSound, callingModuleRoot)
  /\ IF MessageInvalid(message)
       THEN /\ ret' = Rejected(MessageError)
            /\ UNCHANGED <<store, clock, nextId, logs, emitted, tasks>>
       ELSE LET notification ==
                  Notification(nextId, message, NormalizeLevel(level),
                               Options(callingModuleRoot, redirectUrl), clock, enableSound)
            IN /\ store' = Insert(store, toDatabase(notification, clock))
               /\ nextId' = nextId + 1
               /\ logs' = Append(logs, [method |-> LoggerLevel(notification.level),
                                        message |-> LogMessage(notification)])
               /\ emitted' = Append(emitted, [topic |-> "notifications.new",
                                              payload |-> notification])
               /\ ret' = Ok
               /\ UNCHANGED <<clock, tasks>>

GetInbox ==
  /\ \E rows \in getInbox(store) : ret' = Rows(rows)
  /\ lastCall' = Call("getInbox", 0)
  /\ UNCHANGED <<store, clock, nextId, logs, emitted, tasks>>

GetArchived ==
  /\ \E rows \in getArchived(store) : ret' = Rows(rows)
  /\ lastCall' = Call("getArchived", 0)
  /\ UNCHANGED <<store, clock, nextId, logs, emitted, tasks>>

Archive(notificationId) ==
  /\ store' = archive(store, notificationId)
  /\ lastCall' = Call("archive", notificationId)
  /\ ret' = Ok
  /\ UNCHANGED <<clock, nextId, logs, emitted, tasks>>

ArchiveAll ==
  /\ store' = archiveAll(store)
  /\ lastCall' = Call("archiveAll", 0)
  /\ ret' = Ok
  /\ UNCHANGED <<clock, nextId, logs, emitted, tasks>>

MarkAsRead(notificationId) ==
  /\ store' = markAsRead(store, notificationId)
  /\ lastCall' = Call("markAsRead", notificationId)
  /\ ret' = Ok
  /\ UNCHANGED <<clock, nextId, logs, emitted, tasks>>

MarkAllAsRead ==
  /\ store' = markAllAsRead(store)
  /\ lastCall' = Call("markAllAsRead", 0)
  /\ ret' = Ok
  /\ UNCHANGED <<clock, nextId, logs, emitted, tasks>>

-----------------------------------------------------------------------------
(* Spec: the life cycle of a few notifications *)

LifeMessages == {Str(Hi), Str(<<>>)}

LifeLevels == {Undefined, Str(<<"E", "R", "R", "O", "R">>)}

LifeIds == 1..(MaxRows + 1)

LifeCreate ==
  \E message \in LifeMessages, level \in LifeLevels :
    Create(message, Undefined, level, Undefined, CoreRoot, MaxRows)

LifeTick == Tick(MaxClock)

LifeArchive == \E id \in LifeIds : Archive(id)

LifeMarkAsRead == \E id \in LifeIds : MarkAsRead(id)

Next ==
  \/ LifeCreate
  \/ LifeTick
  \/ GetInbox
  \/ GetArchived
  \/ LifeArchive
  \/ ArchiveAll
  \/ LifeMarkAsRead
  \/ MarkAllAsRead

Spec == Init /\ [][Next]_vars

-----------------------------------------------------------------------------
(* SpecInputs: create over the shapes of its arguments *)

InputMessages == {Undefined, Str(<<>>), Num(<<"4", "2">>), Num(<<"0">>), Str(Hi)}

InputLevels ==
  { Undefined, Num(<<"1">>), Str(<<>>), Str(<<"b", "o", "g", "u", "s">>),
    Str(<<"i", "n", "f", "o">>), Str(<<"I", "n", "f", "o">>),
    Str(<<"e", "r", "r", "o", "r">>), Str(<<"E", "R", "R", "O", "R">>),
    Str(<<"E", "r", "r", "o", "r">>),
    Str(<<"s", "u", "c", "c", "e", "s", "s">>), Str(<<"S", "U", "C", "C", "E", "S", "S">>),
    Str(<<"w", "a", "r", "n", "i", "n", "g">>), Str(<<"W", "a", "r", "n", "i", "n", "g">>) }

InputUrls == {Undefined, Str(<<"/", "x">>), Num(<<"7">>)}

InputSounds == {Undefined, Bool(TRUE), Bool(FALSE)}

InputRoots == {CoreRoot, ModuleA.root}

InputIds == 1..MaxCreateRows

(* calls with a valid message over every combination of the other arguments, *)
(* and calls with each invalid message                                       *)
InputCalls ==
  { CreateCall(Str(Hi), redirectUrl, level, enableSound, callingModuleRoot) :
      redirectUrl \in InputUrls, level \in InputLevels, enableSound \in InputSounds,
      callingModuleRoot \in InputRoots }
  \cup
  { CreateCall(message, redirectUrl, level, Undefined, CoreRoot) :
      message \in InputMessages \ {Str(Hi)},
      redirectUrl \in {Undefined, Str(<<"/", "x">>)},
      level \in {Undefined, Str(<<"E", "R", "R", "O", "R">>)} }

InputCreate ==
  \E c \in InputCalls :
    Create(c.message, c.redirectUrl, c.level, c.enableSound, c.callingModuleRoot,
           MaxCreateRows)

InputArchive == \E id \in InputIds : Archive(id)

InputMarkAsRead == \E id \in InputIds : MarkAsRead(id)

NextInputs ==
  \/ InputCreate
  \/ GetInbox
  \/ GetArchived
  \/ InputArchive
  \/ ArchiveAll
  \/ InputMarkAsRead
  \/ MarkAllAsRead

SpecInputs == Init /\ [][NextInputs]_vars

-----------------------------------------------------------------------------
(* SpecCap: a store filled up to the page size of the queries *)

PreRows == InboxLimit - 1

(* the two oldest rows were created within the same clock reading *)
PreCreatedOn(i) == IF i = 1 THEN 1 ELSE i - 1

PreNotification(i) ==
  Notification(i, Str(Hi), NormalizeLevel(Undefined), Options(CoreRoot, Undefined),
               PreCreatedOn(i), Undefined)

InitCap ==
  /\ store = [i \in 1..PreRows |-> toDatabase(PreNotification(i), PreCreatedOn(i))]
  /\ clock = PreCreatedOn(PreRows)
  /\ nextId = PreRows + 1
  /\ lastCall = CreateCall(Str(Hi), Undefined, Undefined, Undefined, CoreRoot)
  /\ ret = Ok
  /\ logs = [i \in 1..PreRows |-> [method |-> LoggerLevel(PreNotification(i).level),
                                   message |-> LogMessage(PreNotification(i))]]
  /\ emitted = [i \in 1..PreRows |-> [topic |-> "notifications.new",
                                      payload |-> PreNotification(i)]]
  /\ tasks = <<>>

CapIds == {1, PreRows + 1}

CapCreate ==
  Create(Str(Hi), Undefined, Undefined, Undefined, CoreRoot, PreRows + MaxCapCreates)

CapTick == Tick(PreCreatedOn(PreRows) + MaxCapTicks)

CapArchive == \E id \in CapIds : Archive(id)

NextCap ==
  \/ CapCreate
  \/ CapTick
  \/ GetInbox
  \/ GetArchived
  \/ CapArchive
  \/ ArchiveAll
  \/ MarkAllAsRead

SpecCap == InitCap /\ [][NextCap]_vars

-----------------------------------------------------------------------------
(* Vocabulary of the properties *)

StoredRow(s, id) == s[CHOOSE i \in 1..Len(s) : s[i].id = id]

IdsOf(rows) == {rows[j].id : j \in 1..Len(rows)}

Unarchived(s) == {i \in 1..Len(s) : ~s[i].archived}

Archived(s) == {i \in 1..Len(s) : s[i].archived}

-----------------------------------------------------------------------------
(* C1: getInbox() returns only records whose stored archived flag is false, *)
(* getArchived() only records whose stored archived flag is true, and on    *)
(* one store state no record is returned by both queries.                   *)
C1_QueriesPartition ==
  /\ lastCall.op = "getInbox" =>
       \A j \in 1..Len(ret.rows) :
         /\ ret.rows[j].id \in Ids(store)
         /\ StoredRow(store, ret.rows[j].id).archived = FALSE
  /\ lastCall.op = "getArchived" =>
       \A j \in 1..Len(ret.rows) :
         /\ ret.rows[j].id \in Ids(store)
         /\ StoredRow(store, ret.rows[j].id).archived = TRUE
  /\ \A inbox \in getInbox(store), archived \in getArchived(store) :
       IdsOf(inbox) \cap IdsOf(archived) = {}

C1_Witness ==
  /\ lastCall.op = "getInbox"
  /\ Len(ret.rows) >= 1
  /\ Archived(store) # {}
  /\ \E archived \in getArchived(store) : Len(archived) >= 1

-----------------------------------------------------------------------------
(* C2: read and archived are monotonic: a stored notification that has      *)
(* read = true (archived = true) keeps it over every step, and an archived  *)
(* notification is in no result of getInbox() afterwards.                   *)
C2_FlagsMonotonic ==
  [][\A i \in 1..Len(store) :
       /\ store[i].read =>
            /\ store[i].id \in Ids(store')
            /\ StoredRow(store', store[i].id).read
       /\ store[i].archived =>
            /\ store[i].id \in Ids(store')
            /\ StoredRow(store', store[i].id).archived
            /\ \A inbox \in getInbox(store') : store[i].id \notin IdsOf(inbox)]_vars

C2_Witness ==
  /\ lastCall.op = "getInbox"
  /\ Len(ret.rows) >= 1
  /\ \E i \in 1..Len(store) :
       /\ store[i].read
       /\ store[i].archived
       /\ store[i].id \notin IdsOf(ret.rows)

-----------------------------------------------------------------------------
(* Vocabulary of the properties of create *)

IsNonEmptyString(v) == v.type = "string" /\ v.val # <<>>

AllowedLevels ==
  { <<"i", "n", "f", "o">>, <<"s", "u", "c", "c", "e", "s", "s">>,
    <<"e", "r", "r", "o", "r">>, <<"w", "a", "r", "n", "i", "n", "g">> }

ExpectedLevel(level) ==
  IF level.type = "string" /\ toLowerCase(level.val) \in AllowedLevels
    THEN toLowerCase(level.val)
    ELSE <<"i", "n", "f", "o">>

(* C3: create with a missing, empty or non-string message is rejected with  *)
(* the validation error and inserts no row, writes no log line and emits no *)
(* event.                                                                   *)
C3_InvalidMessageRejected ==
  [][(lastCall'.op = "create" /\ ~IsNonEmptyString(lastCall'.message))
       => /\ ret' = Rejected(MessageError)
          /\ UNCHANGED <<store, logs, emitted>>]_vars

C3_Witness ==
  /\ lastCall.op = "create"
  /\ ~IsNonEmptyString(lastCall.message)
  /\ ret.status = "rejected"
  /\ ret.error = MessageError
  /\ Len(store) >= 1
  /\ Len(logs) = Len(store)
  /\ Len(emitted) = Len(store)

(* C4: the row stored by a create with a valid message has read = false,    *)
(* archived = false and a level among info, success, error, warning,        *)
(* whatever the other arguments are; every stored row has such a level.     *)
C4_CreatedRowDefaults ==
  [][/\ (lastCall'.op = "create" /\ IsNonEmptyString(lastCall'.message))
          => /\ Len(store') = Len(store) + 1
             /\ store'[Len(store')].read = FALSE
             /\ store'[Len(store')].archived = FALSE
             /\ store'[Len(store')].level \in AllowedLevels
     /\ \A i \in 1..Len(store') : store'[i].level \in AllowedLevels]_vars

C4_Witness ==
  /\ lastCall.op = "create"
  /\ IsNonEmptyString(lastCall.message)
  /\ lastCall.level = Str(<<"S", "U", "C", "C", "E", "S", "S">>)
  /\ lastCall.redirectUrl = Num(<<"7">>)
  /\ lastCall.enableSound = Bool(TRUE)
  /\ ret.status = "resolved"
  /\ Len(store) = MaxCreateRows
  /\ ~store[Len(store)].read /\ ~store[Len(store)].archived
  /\ store[Len(store)].level = <<"s", "u", "c", "c", "e", "s", "s">>

(* C5: create stores info for a level that is absent, not a string or no    *)
(* case variant of info, success, error, warning, and stores the lowercase  *)
(* value for every case variant of one of these four.                       *)
C5_LevelNormalized ==
  [][(lastCall'.op = "create" /\ IsNonEmptyString(lastCall'.message))
       => store'[Len(store')].level = ExpectedLevel(lastCall'.level)]_vars

-----------------------------------------------------------------------------
(* Vocabulary of the properties of the queries *)

AllArchived(s) == \A i \in 1..Len(s) : s[i].archived

(* rows is a page of at most limit records over the rows S of s: as many as *)
(* the limit allows, no record twice, none created before a row of S that   *)
(* is left out, newest first, each as stored                                *)
IsNewestPage(rows, s, S, limit) ==
  /\ Len(rows) = IF Cardinality(S) < limit THEN Cardinality(S) ELSE limit
  /\ Cardinality(IdsOf(rows)) = Len(rows)
  /\ {<<rows[j].id, rows[j].date>> : j \in 1..Len(rows)}
       \subseteq {<<s[i].id, s[i].created_on>> : i \in S}
  /\ \A i \in S : s[i].id \notin IdsOf(rows) =>
       \A j \in 1..Len(rows) : s[i].created_on <= rows[j].date
  /\ \A j \in 1..(Len(rows) - 1) : rows[j].date >= rows[j + 1].date

(* C6: after archiveAll(), as long as no row is created, getInbox() returns *)
(* the empty sequence and getArchived() returns every inserted record, the  *)
(* 100 newest when there are more than 100.                                 *)
C6_ArchiveAllEmptiesInbox ==
  [][/\ lastCall'.op = "archiveAll" => AllArchived(store')
     /\ (AllArchived(store) /\ Len(store') = Len(store)) => AllArchived(store')
     /\ (AllArchived(store') /\ lastCall'.op = "getInbox") => ret'.rows = <<>>
     /\ (AllArchived(store') /\ lastCall'.op = "getArchived") =>
          /\ IsNewestPage(ret'.rows, store', 1..Len(store'), 100)
          /\ Len(store') <= 100 => IdsOf(ret'.rows) = Ids(store')]_vars

C6_Witness ==
  /\ lastCall.op = "getArchived"
  /\ AllArchived(store)
  /\ Len(store) > 100
  /\ Len(ret.rows) = 100
  /\ \E inbox \in getInbox(store) : inbox = <<>>

(* C7: getInbox() returns min(100, N) records for N non-archived rows, the  *)
(* most recently created ones, newest first by creation time; getArchived() *)
(* does the same over the archived rows.                                    *)
C7_PageNewestFirst ==
  /\ lastCall.op = "getInbox" =>
       IsNewestPage(ret.rows, store, Unarchived(store), 100)
  /\ lastCall.op = "getArchived" =>
       IsNewestPage(ret.rows, store, Archived(store), 100)

C7_Witness ==
  /\ lastCall.op = "getInbox"
  /\ Cardinality(Unarchived(store)) > 100
  /\ Len(ret.rows) = 100
  /\ ret.rows[1].date > ret.rows[100].date
  /\ ret.rows[1].date = ret.rows[2].date

-----------------------------------------------------------------------------
(* Vocabulary of the properties of the mutations *)

Mutations == {"archive", "archiveAll", "markAsRead", "markAllAsRead"}

(* C8: archive(id) and markAsRead(id) with an id that matches no stored row *)
(* complete without an error and change no row.                             *)
C8_UnknownIdNoOp ==
  [][(lastCall'.op \in {"archive", "markAsRead"} /\ lastCall'.id \notin Ids(store))
       => /\ ret'.status = "resolved"
          /\ store' = store]_vars

C8_Witness ==
  /\ lastCall.op = "archive"
  /\ lastCall.id \notin Ids(store)
  /\ ret.status = "resolved"
  /\ Len(store) >= 2
  /\ Unarchived(store) # {}
  /\ Archived(store) # {}

(* C9: markAsRead(id), archive(id), archiveAll() and markAllAsRead() are    *)
(* idempotent: the same call made again right after itself leaves the store *)
(* as the first one left it.                                                *)
C9_Idempotent ==
  [][(lastCall.op \in Mutations /\ lastCall' = lastCall) => store' = store]_vars

C9_Witness ==
  /\ lastCall.op = "markAsRead"
  /\ lastCall.id \in Ids(store)
  /\ StoredRow(store, lastCall.id).read
  /\ \E i \in 1..Len(store) : ~store[i].read

(* C10: markAsRead(id) changes only the read flag of the row with that id,  *)
(* markAllAsRead() only read flags, archive(id) only the archived flag of   *)
(* the row with that id, archiveAll() only archived flags; the other rows   *)
(* and fields stay as they are.                                             *)
C10_FlagsIndependent ==
  [][/\ lastCall'.op \in Mutations => Len(store') = Len(store)
     /\ lastCall'.op = "markAsRead" =>
          \A i \in 1..Len(store) :
            store'[i] = IF store[i].id = lastCall'.id
                          THEN [store[i] EXCEPT !.read = store'[i].read]
                          ELSE store[i]
     /\ lastCall'.op = "markAllAsRead" =>
          \A i \in 1..Len(store) : store'[i] = [store[i] EXCEPT !.read = store'[i].read]
     /\ lastCall'.op = "archive" =>
          \A i \in 1..Len(store) :
            store'[i] = IF store[i].id = lastCall'.id
                          THEN [store[i] EXCEPT !.archived = store'[i].archived]
                          ELSE store[i]
     /\ lastCall'.op = "archiveAll" =>
          \A i \in 1..Len(store) :
            store'[i] = [store[i] EXCEPT !.archived = store'[i].archived]]_vars

C10_Witness ==
  /\ lastCall.op = "archive"
  /\ \E i \in 1..Len(store) :
       /\ store[i].id = lastCall.id
       /\ store[i].archived
       /\ ~store[i].read
  /\ \E i \in 1..Len(store) :
       /\ store[i].read
       /\ ~store[i].archived

-----------------------------------------------------------------------------
(* C14: no two stored rows share an id, every successful create adds one    *)
(* row whose id is none of the existing ones, no step changes the id of a   *)
(* row, and no id leaves the store.                                         *)
C14_IdsUniqueImmutable ==
  [][/\ Cardinality(Ids(store')) = Len(store')
     /\ Ids(store) \subseteq Ids(store')
     /\ \A i \in 1..Len(store) : i <= Len(store') /\ store'[i].id = store[i].id
     /\ Len(emitted') # Len(emitted) =>
          /\ Len(store') = Len(store) + 1
          /\ store'[Len(store')].id \notin Ids(store)
     /\ Len(store') # Len(store) =>
          /\ lastCall'.op = "create"
          /\ ret'.status = "resolved"
          /\ Len(store') = Len(store) + 1]_vars

C14_Witness ==
  /\ lastCall.op = "create"
  /\ ret.status = "resolved"
  /\ Len(store) = MaxRows
  /\ store[1].archived
  /\ store[1].read
  /\ store[1].id # store[Len(store)].id

-----------------------------------------------------------------------------
ExpectedUrl(redirectUrl, callingModuleRoot) ==
  IF redirectUrl.type = "string"
    THEN redirectUrl
    ELSE IF \E mod \in modules : mod.root = callingModuleRoot
      THEN Str(<<"/", "m", "o", "d", "u", "l", "e", "s", "/">>
                 \o (CHOOSE mod \in modules : mod.root = callingModuleRoot).name)
      ELSE Str(<<"/">>)

(* C15: the stored url is the redirectUrl of the call when that is a        *)
(* string, for a caller inside a registered module and for any other        *)
(* caller; otherwise it is /modules/<module name> for a caller inside a     *)
(* registered module and / for any other caller.                            *)
C15_UrlIsRedirectTarget ==
  [][(lastCall'.op = "create" /\ IsNonEmptyString(lastCall'.message))
       => store'[Len(store')].redirect_url
            = ExpectedUrl(lastCall'.redirectUrl, lastCall'.callingModuleRoot)]_vars

-----------------------------------------------------------------------------
SameIdentity(a, b) ==
  /\ a.id = b.id
  /\ a.message = b.message
  /\ a.level = b.level
  /\ a.moduleId = b.moduleId
  /\ a.icon = b.icon
  /\ a.name = b.name
  /\ a.url = b.url

-----------------------------------------------------------------------------
MutationCalls ==
  {Call("archiveAll", 0), Call("markAllAsRead", 0)}
    \cup {Call("archive", id) : id \in LifeIds}
    \cup {Call("markAsRead", id) : id \in LifeIds}

Apply(c, s) ==
  CASE c.op = "archive" -> archive(s, c.id)
    [] c.op = "archiveAll" -> archiveAll(s)
    [] c.op = "markAsRead" -> markAsRead(s, c.id)
    [] c.op = "markAllAsRead" -> markAllAsRead(s)

NewRow ==
  toDatabase(Notification(nextId, Str(Hi), NormalizeLevel(Undefined),
                          Options(CoreRoot, Undefined), clock, Undefined), clock)

(* C18: any two of archive(id), archiveAll(), markAsRead(id') and           *)
(* markAllAsRead() give the same store in either order, from every store    *)
(* state; a create and archiveAll() or markAllAsRead() do not.              *)
C18_MutationsCommute ==
  /\ \A a \in MutationCalls, b \in MutationCalls :
       Apply(b, Apply(a, store)) = Apply(a, Apply(b, store))
  /\ archiveAll(Insert(store, NewRow)) # Insert(archiveAll(store), NewRow)
  /\ markAllAsRead(Insert(store, NewRow)) # Insert(markAllAsRead(store), NewRow)

C18_Witness ==
  /\ lastCall.op = "archiveAll"
  /\ Len(store) = MaxRows
  /\ AllArchived(store)
  /\ store[1].read
  /\ ~store[Len(store)].read
  /\ Apply(Call("markAsRead", store[Len(store)].id), store) # store

-----------------------------------------------------------------------------
(* Asynchronous execution: create and the event handlers of _bindEvents    *)
(* run as tasks whose awaited store statements and continuations are       *)
(* separate steps; steps of different tasks interleave.                    *)

MaxTasks == 2

EventIds == {1}

HandlerTopics ==
  {"notifications.getAll", "notifications.read",
   "notifications.allRead", "notifications.trashAll"}

StoreError == "store error"

StepsOf_NotifyFirst(kind) ==
  CASE kind = "create" -> <<"notify", "insert">>
    [] kind = "notifications.getAll" -> <<"getInbox", "emit">>
    [] kind = "notifications.read" -> <<"markAsRead", "getInbox", "emit">>
    [] kind = "notifications.allRead" -> <<"markAllAsRead", "getInbox", "emit">>
    [] kind = "notifications.trashAll" -> <<"archiveAll", "getInbox", "emit">>

StepsOf_ReadFirst(kind) ==
  CASE kind = "create" -> <<"insert", "notify">>
    [] kind = "notifications.getAll" -> <<"getInbox", "emit">>
    [] kind = "notifications.read" -> <<"getInbox", "markAsRead", "emit">>
    [] kind = "notifications.allRead" -> <<"getInbox", "markAllAsRead", "emit">>
    [] kind = "notifications.trashAll" -> <<"getInbox", "archiveAll", "emit">>

StepsOf_NoEmit(kind) ==
  CASE kind = "create" -> <<"insert", "notify">>
    [] kind = "notifications.getAll" -> <<"getInbox">>
    [] kind = "notifications.read" -> <<"markAsRead", "getInbox", "emit">>
    [] kind = "notifications.allRead" -> <<"markAllAsRead", "getInbox", "emit">>
    [] kind = "notifications.trashAll" -> <<"archiveAll", "getInbox", "emit">>

(* the awaited statements and the continuation of each task, in order *)
StepsOf(kind) ==
  CASE kind = "create" -> <<"insert", "notify">>
    [] kind = "notifications.getAll" -> <<"getInbox", "emit">>
    [] kind = "notifications.read" -> <<"markAsRead", "getInbox", "emit">>
    [] kind = "notifications.allRead" -> <<"markAllAsRead", "getInbox", "emit">>
    [] kind = "notifications.trashAll" -> <<"archiveAll", "getInbox", "emit">>

StoreSteps == {"insert", "markAsRead", "markAllAsRead", "archiveAll", "getInbox"}

(* mutated, seen and sent are history: whether the task's mutation ran,    *)
(* the ids stored when it ran, and the number of events the task emitted.  *)
NewTask(kind, id, created) ==
  [kind |-> kind, id |-> id, pc |-> 1, status |-> "running", error |-> "",
   notification |-> created, snapshot |-> <<>>,
   mutated |-> FALSE, seen |-> {}, sent |-> 0]

(* create(...) up to its await: validation passed, the record is built and *)
(* the insert is issued.                                                   *)
StartCreate(message, redirectUrl, level, enableSound, callingModuleRoot) ==
  /\ Len(tasks) < MaxTasks
  /\ ~MessageInvalid(message)
  /\ LET notification ==
           Notification(nextId, message, NormalizeLevel(level),
                        Options(callingModuleRoot, redirectUrl), clock, enableSound)
     IN tasks' = Append(tasks, NewTask("create", nextId, <<notification>>))
  /\ nextId' = nextId + 1
  /\ UNCHANGED <<store, clock, lastCall, ret, logs, emitted>>

(* an incoming event reaches its handler *)
Consume(topic, id) ==
  /\ Len(tasks) < MaxTasks
  /\ topic \in HandlerTopics
  /\ tasks' = Append(tasks, NewTask(topic, id, <<>>))
  /\ UNCHANGED <<store, clock, nextId, lastCall, ret, logs, emitted>>

Advance(task) ==
  [task EXCEPT !.pc = @ + 1,
               !.status = IF task.pc = Len(StepsOf(task.kind))
                            THEN "resolved" ELSE "running"]

Mutated(task, s) == [Advance(task) EXCEPT !.mutated = TRUE, !.seen = Ids(s)]

(* a task's next awaited statement completes, or its continuation runs *)
Step(t) ==
  /\ t \in 1..Len(tasks)
  /\ tasks[t].status = "running"
  /\ LET task == tasks[t]
         step == StepsOf(task.kind)[task.pc]
     IN CASE step = "insert" ->
               /\ store' = Insert(store, toDatabase(task.notification[1],
                                                    task.notification[1].date))
               /\ tasks' = [tasks EXCEPT ![t] = Advance(task)]
               /\ UNCHANGED <<logs, emitted>>
          [] step = "notify" ->
               /\ logs' = Append(logs,
                            [method |-> LoggerLevel(task.notification[1].level),
                             message |-> LogMessage(task.notification[1])])
               /\ emitted' = Append(emitted, [topic |-> "notifications.new",
                                              payload |-> task.notification[1]])
               /\ tasks' = [tasks EXCEPT ![t] = [Advance(task) EXCEPT !.sent = @ + 1]]
               /\ UNCHANGED store
          [] step = "markAsRead" ->
               /\ store' = markAsRead(store, task.id)
               /\ tasks' = [tasks EXCEPT ![t] = Mutated(task, store)]
               /\ UNCHANGED <<logs, emitted>>
          [] step = "markAllAsRead" ->
               /\ store' = markAllAsRead(store)
               /\ tasks' = [tasks EXCEPT ![t] = Mutated(task, store)]
               /\ UNCHANGED <<logs, emitted>>
          [] step = "archiveAll" ->
               /\ store' = archiveAll(store)
               /\ tasks' = [tasks EXCEPT ![t] = Mutated(task, store)]
               /\ UNCHANGED <<logs, emitted>>
          [] step = "getInbox" ->
               /\ \E rows \in getInbox(store) :
                    tasks' = [tasks EXCEPT ![t] = [Advance(task) EXCEPT !.snapshot = rows]]
               /\ UNCHANGED <<store, logs, emitted>>
          [] step = "emit" ->
               /\ emitted' = Append(emitted, [topic |-> "notifications.all",
                                              payload |-> task.snapshot])
               /\ tasks' = [tasks EXCEPT ![t] = [Advance(task) EXCEPT !.sent = @ + 1]]
               /\ UNCHANGED <<store, logs>>
  /\ UNCHANGED <<clock, nextId, lastCall, ret>>

Fail_Swallow(t) ==
  /\ t \in 1..Len(tasks)
  /\ tasks[t].status = "running"
  /\ tasks[t].error = ""
  /\ StepsOf(tasks[t].kind)[tasks[t].pc] \in StoreSteps
  /\ tasks' = [tasks EXCEPT ![t] = [Advance(tasks[t]) EXCEPT !.error = StoreError]]
  /\ UNCHANGED <<store, clock, nextId, lastCall, ret, logs, emitted>>

(* the awaited store statement rejects: the async function rejects with    *)
(* the store's error and runs no further.                                  *)
Fail(t) ==
  /\ t \in 1..Len(tasks)
  /\ tasks[t].status = "running"
  /\ tasks[t].error = ""
  /\ StepsOf(tasks[t].kind)[tasks[t].pc] \in StoreSteps
  /\ tasks' = [tasks EXCEPT ![t] = [@ EXCEPT !.status = "rejected", !.error = StoreError]]
  /\ UNCHANGED <<store, clock, nextId, lastCall, ret, logs, emitted>>

EventsCreate ==
  \E level \in {Undefined, Str(<<"e", "r", "r", "o", "r">>)} :
    StartCreate(Str(Hi), Undefined, level, Undefined, CoreRoot)

EventsConsume ==
  \/ \E id \in EventIds : Consume("notifications.read", id)
  \/ \E topic \in HandlerTopics \ {"notifications.read"} : Consume(topic, 0)

EventsStep == \E t \in 1..MaxTasks : Step(t)

EventsFail == \E t \in 1..MaxTasks : Fail(t)

(* the state after one completed create(): one unread, unarchived row *)
InitEvents ==
  LET notification ==
        Notification(1, Str(Hi), NormalizeLevel(Undefined),
                     Options(CoreRoot, Undefined), 0, Undefined)
  IN /\ store = Insert(<<>>, toDatabase(notification, 0))
     /\ clock = 0
     /\ nextId = 2
     /\ lastCall = CreateCall(Str(Hi), Undefined, Undefined, Undefined, CoreRoot)
     /\ ret = Ok
     /\ logs = <<[method |-> LoggerLevel(notification.level),
                  message |-> LogMessage(notification)]>>
     /\ emitted = <<[topic |-> "notifications.new", payload |-> notification]>>
     /\ tasks = <<>>

NextEvents ==
  \/ EventsCreate
  \/ EventsConsume
  \/ EventsStep

SpecEvents == InitEvents /\ [][NextEvents]_vars

(* every pending statement completes and every continuation is run *)
SpecEventsLive == SpecEvents /\ \A t \in 1..MaxTasks : WF_vars(Step(t))

NextFaults ==
  \/ EventsCreate
  \/ EventsConsume
  \/ EventsStep
  \/ EventsFail

SpecFaults == InitEvents /\ [][NextFaults]_vars

-----------------------------------------------------------------------------
(* Vocabulary of the properties of tasks *)

RowsWithId(s, id) == {i \in 1..Len(s) : s[i].id = id}

NewEventsOf(events, id) ==
  {k \in 1..Len(events) :
     events[k].topic = "notifications.new" /\ events[k].payload.id = id}

AllEvents(events) == {k \in 1..Len(events) : events[k].topic = "notifications.all"}

(* C11: a create emits notifications.new only when its row is stored; the  *)
(* payload has the id, message, level, moduleId, icon, name and url of     *)
(* that row and read = false; a resolved create has inserted exactly one   *)
(* row and emitted exactly one notifications.new event.                    *)
C11_NewAfterInsert ==
  [][\A t \in 1..Len(tasks) :
       tasks[t].kind = "create" =>
         /\ tasks'[t].sent # tasks[t].sent =>
              /\ tasks'[t].sent = 1
              /\ Len(emitted') = Len(emitted) + 1
              /\ store' = store
              /\ LET e == emitted'[Len(emitted')]
                 IN /\ e.topic = "notifications.new"
                    /\ e.payload.id = tasks[t].id
                    /\ Cardinality(RowsWithId(store, e.payload.id)) = 1
                    /\ SameIdentity(e.payload, fromDatabase(StoredRow(store, e.payload.id)))
                    /\ e.payload.read = FALSE
         /\ tasks'[t].status = "resolved" =>
              /\ tasks'[t].sent = 1
              /\ Cardinality(RowsWithId(store', tasks[t].id)) = 1
              /\ Cardinality(NewEventsOf(emitted', tasks[t].id)) = 1]_vars

C11_Witness ==
  \E t \in 1..Len(tasks) :
    /\ tasks[t].kind = "create"
    /\ tasks[t].status = "resolved"
    /\ emitted[Len(emitted)].topic = "notifications.new"
    /\ emitted[Len(emitted)].payload.id = tasks[t].id
    /\ StoredRow(store, tasks[t].id).archived

-----------------------------------------------------------------------------
MutatingTopics ==
  {"notifications.read", "notifications.allRead", "notifications.trashAll"}

(* C12: a mutating handler reads the inbox and broadcasts only after its   *)
(* own mutation; the notifications.all payload of notifications.read(id)   *)
(* shows read = true for id if present, that of notifications.allRead      *)
(* shows read = true for every record stored when the mutation ran, that   *)
(* of notifications.trashAll holds no record stored when the mutation ran. *)
C12_BroadcastAfterOwnMutation ==
  [][\A t \in 1..Len(tasks) :
       tasks[t].kind \in MutatingTopics =>
         /\ (tasks'[t] # tasks[t] /\ tasks'[t].mutated = tasks[t].mutated) =>
              tasks[t].mutated
         /\ tasks'[t].sent # tasks[t].sent =>
              /\ Len(emitted') = Len(emitted) + 1
              /\ emitted'[Len(emitted')].topic = "notifications.all"
              /\ LET payload == emitted'[Len(emitted')].payload
                 IN \A j \in 1..Len(payload) :
                      CASE tasks[t].kind = "notifications.read" ->
                             payload[j].id = tasks[t].id => payload[j].read = TRUE
                        [] tasks[t].kind = "notifications.allRead" ->
                             payload[j].read = TRUE \/ payload[j].id \notin tasks[t].seen
                        [] tasks[t].kind = "notifications.trashAll" ->
                             payload[j].id \notin tasks[t].seen]_vars

C12_Witness ==
  \E t \in 1..Len(tasks) :
    /\ tasks[t].kind = "notifications.allRead"
    /\ tasks[t].status = "resolved"
    /\ emitted[Len(emitted)].topic = "notifications.all"
    /\ emitted[Len(emitted)].payload = tasks[t].snapshot
    /\ \E j \in 1..Len(tasks[t].snapshot) : tasks[t].snapshot[j].read = FALSE
    /\ \E j \in 1..Len(tasks[t].snapshot) : tasks[t].snapshot[j].read = TRUE

-----------------------------------------------------------------------------
Answered(events, ts) ==
  Cardinality(AllEvents(events))
    = Cardinality({t \in 1..Len(ts) : ts[t].kind \in HandlerTopics /\ ts[t].sent = 1})

(* C13: when store statements succeed and every pending step is run,       *)
(* each consumed event is eventually followed by the one notifications.all *)
(* broadcast of its handler, no handler broadcasts twice, and the handler  *)
(* of notifications.getAll changes no row.                                 *)
C13_EveryEventAnswered ==
  /\ \A t \in 1..MaxTasks :
       (Len(tasks) >= t /\ tasks[t].kind \in HandlerTopics)
         ~> (Len(tasks) >= t /\ tasks[t].status = "resolved" /\ tasks[t].sent = 1)
  /\ [](/\ \A t \in 1..Len(tasks) : tasks[t].sent <= 1
        /\ Answered(emitted, tasks))
  /\ [][\A t \in 1..Len(tasks) :
          (tasks[t].kind = "notifications.getAll" /\ tasks'[t] # tasks[t])
            => store' = store]_vars

C13_Witness ==
  /\ Len(tasks) = MaxTasks
  /\ \A t \in 1..Len(tasks) : tasks[t].status = "resolved" /\ tasks[t].sent = 1
  /\ tasks[1].kind = "notifications.getAll"
  /\ tasks[Len(tasks)].kind \in MutatingTopics
  /\ Cardinality(AllEvents(emitted)) = MaxTasks

-----------------------------------------------------------------------------
AllResolved(ts) == \A t \in 1..Len(ts) : ts[t].status = "resolved"

LastAll(events) ==
  events[CHOOSE k \in AllEvents(events) : \A m \in AllEvents(events) : m <= k].payload

(* the records of a payload that the store no longer shows that way *)
Stale(payload, s) ==
  {j \in 1..Len(payload) :
     \/ payload[j].id \notin Ids(s)
     \/ StoredRow(s, payload[j].id).archived
     \/ StoredRow(s, payload[j].id).read # payload[j].read}

IsInboxOf(rows, s) ==
  /\ Len(rows) = Cardinality(Unarchived(s))
  /\ IdsOf(rows) = {s[i].id : i \in Unarchived(s)}
  /\ \A j \in 1..Len(rows) : rows[j] = fromDatabase(StoredRow(s, rows[j].id))
  /\ \A j \in 1..Len(rows), k \in 1..Len(rows) : j < k => rows[j].date >= rows[k].date

(* C16 as claimed: once all handlers have completed, the most recently     *)
(* emitted notifications.all payload shows every read and archive mutation *)
(* of the store (it is never an older snapshot).                           *)
C16_LastBroadcastUpToDate ==
  (AllResolved(tasks) /\ AllEvents(emitted) # {}) => Stale(LastAll(emitted), store) = {}

(* C16 as amended: every notifications.all payload is the store's inbox at *)
(* one point in time, the moment its handler's getInbox() ran, and is      *)
(* emitted unchanged by that handler.                                      *)
C16_SnapshotAtRead ==
  [][\A t \in 1..Len(tasks) :
       tasks[t].kind \in HandlerTopics =>
         /\ (tasks'[t] # tasks[t] /\ tasks'[t].mutated = tasks[t].mutated
               /\ tasks'[t].sent = tasks[t].sent) =>
              /\ store' = store
              /\ IsInboxOf(tasks'[t].snapshot, store)
         /\ tasks'[t].snapshot # tasks[t].snapshot =>
              (tasks'[t].mutated = tasks[t].mutated /\ tasks'[t].sent = tasks[t].sent)
         /\ tasks'[t].sent # tasks[t].sent =>
              /\ emitted' = Append(emitted, [topic |-> "notifications.all",
                                             payload |-> tasks[t].snapshot])
              /\ store' = store]_vars

C16_Witness ==
  /\ Len(tasks) = MaxTasks
  /\ AllResolved(tasks)
  /\ Cardinality(AllEvents(emitted)) >= 2
  /\ Stale(LastAll(emitted), store) # {}
  /\ \E t \in 1..Len(tasks) :
       /\ tasks[t].kind = "notifications.getAll"
       /\ LastAll(emitted) = tasks[t].snapshot

-----------------------------------------------------------------------------
Emitting(ts, next) == {t \in 1..Len(ts) : next[t].sent # ts[t].sent}

(* C17: a task whose store statement fails is rejected with the store's    *)
(* error, has emitted nothing and never runs again; a failing step changes *)
(* neither store, log nor events; a create whose insert failed leaves no   *)
(* row, no log line and no notifications.new event; log lines and events   *)
(* come only from tasks that did not fail.                                 *)
C17_FailureSuppresses ==
  [][/\ \A t \in 1..Len(tasks') :
          tasks'[t].error # "" =>
            /\ tasks'[t].status = "rejected"
            /\ tasks'[t].error = StoreError
            /\ tasks'[t].sent = 0
            /\ tasks'[t].kind = "create" =>
                 /\ RowsWithId(store', tasks'[t].id) = {}
                 /\ NewEventsOf(emitted', tasks'[t].id) = {}
     /\ \A t \in 1..Len(tasks) :
          /\ tasks[t].status = "rejected" => tasks'[t] = tasks[t]
          /\ (tasks[t].status # "rejected" /\ tasks'[t].status = "rejected") =>
               /\ store' = store
               /\ logs' = logs
               /\ emitted' = emitted
     /\ Len(emitted') = Len(emitted) + Cardinality(Emitting(tasks, tasks'))
     /\ Len(logs') = Len(logs)
          + Cardinality({t \in Emitting(tasks, tasks') : tasks[t].kind = "create"})
     /\ \A t \in Emitting(tasks, tasks') : tasks'[t].error = ""]_vars

C17_Witness ==
  /\ Len(tasks) = MaxTasks
  /\ tasks[1].kind = "create"
  /\ tasks[1].status = "rejected"
  /\ tasks[1].error = StoreError
  /\ tasks[Len(tasks)].kind = "notifications.trashAll"
  /\ tasks[Len(tasks)].status = "rejected"
  /\ tasks[Len(tasks)].mutated
  /\ AllArchived(store)
  /\ AllEvents(emitted) = {}
  /\ Len(logs) = 1

====
